---- MODULE Spec2Model ----
(***************************************************************************)
(* Model of the request handlers of src/index.js (Student Life Toolkit     *)
(* server): the planner routes over the monthlyPlannerTasks collection,    *)
(* the notification route, and POST /api/classes.                          *)
(*                                                                         *)
(* A collection is a sequence of documents in natural (insertion) order;   *)
(* findOne and updateOne act on the first document matching the filter.    *)
(* Every `await` of a handler is a separate step, so that store calls of   *)
(* different requests interleave exactly where the event loop lets them.   *)
(***************************************************************************)
EXTENDS Integers, Sequences, FiniteSets, TLC

\* ------------------------------------------------------------------ bounds
\* Largest value the millisecond clock (Date.now()) takes in a run.
MaxClock == 2
\* Number of requests a run issues.
MaxRequests == 3
\* Number of documents the classes collection holds in a run.
MaxClasses == 1

\* ------------------------------------------------------------------ domains
\* Request slots: at most two requests are in flight at any time.
Req == {"r1", "r2"}
\* Calendar dates used as :date / body.date ("" stands for a missing value).
Dates == {"2025-09-01", "2025-09-02"}
Ids == 1..MaxClock

VARIABLES
    planner,    \* plannerCollection: sequence of [date, tasks]
    classes,    \* classesCollection: sequence of class documents
    now,        \* Date.now()
    req,        \* per slot: the request being handled, its position and locals
    issued,     \* number of requests started so far
    serial,     \* TRUE: the client waits for each response before the next request
    live,       \* history: per id, the number of tasks added and not deleted
    last        \* history: the most recently completed request

vars == <<planner, classes, now, req, issued, serial, live, last>>

\* ------------------------------------------------------------------ values
NoTask ==
    [id |-> 0, subject |-> "", priority |-> "", notes |-> "",
     completed |-> FALSE, notified |-> FALSE]

NoClass ==
    [name |-> "", instructor |-> "", day |-> "", startTime |-> "",
     endTime |-> "", color |-> ""]

NoBody == [date |-> "", subject |-> "", priority |-> "", notes |-> ""]

NoLast ==
    [op |-> "none", date |-> "", id |-> 0, status |-> 0,
     hasCompleted |-> FALSE, completed |-> FALSE, newDate |-> ""]

Idle ==
    [op |-> "idle", pc |-> "idle", date |-> "", id |-> 0,
     hasCompleted |-> FALSE, completed |-> FALSE, newDate |-> "",
     body |-> NoBody, task |-> NoTask, existing |-> FALSE, imported |-> << >>,
     newClass |-> NoClass, status |-> 0, resTask |-> NoTask,
     resMap |-> << >>, pre |-> << >>, preClasses |-> << >>,
     writes |-> 0, mails |-> 0, fault |-> FALSE]

\* ------------------------------------------------------------------ store
\* Index of the first document whose date matches, 0 when there is none
\* (findOne({ date }) / the document updateOne({ date }, ...) acts on).
FindOne(coll, date) ==
    IF \E i \in 1..Len(coll) : coll[i].date = date
    THEN CHOOSE i \in 1..Len(coll) :
            /\ coll[i].date = date
            /\ \A j \in 1..(i - 1) : coll[j].date # date
    ELSE 0

\* tasks.find((t) => t.id == id): index of the first task with that id, or 0.
FindTask(tasks, id) ==
    IF \E i \in 1..Len(tasks) : tasks[i].id = id
    THEN CHOOSE i \in 1..Len(tasks) :
            /\ tasks[i].id = id
            /\ \A j \in 1..(i - 1) : tasks[j].id # id
    ELSE 0

\* Index of the first document matching { date, "tasks.id": id }, or 0.
FindOneWithTask(coll, date, id) ==
    IF \E i \in 1..Len(coll) : coll[i].date = date /\ FindTask(coll[i].tasks, id) # 0
    THEN CHOOSE i \in 1..Len(coll) :
            /\ coll[i].date = date /\ FindTask(coll[i].tasks, id) # 0
            /\ \A j \in 1..(i - 1) :
                   ~(coll[j].date = date /\ FindTask(coll[j].tasks, id) # 0)
    ELSE 0

\* updateOne({ date }, { $push: { tasks: task } })
PushTask(coll, date, task) ==
    LET i == FindOne(coll, date) IN
    IF i = 0 THEN coll
    ELSE [coll EXCEPT ![i].tasks = Append(@, task)]

\* (variant: $pop in place of $pull, the last element goes whatever its id)
Pull_Pop(tasks, id) ==
    IF tasks = << >> THEN tasks ELSE SubSeq(tasks, 1, Len(tasks) - 1)

\* $pull: { tasks: { id } } on one array: every element with that id goes.
Pull(tasks, id) == SelectSeq(tasks, LAMBDA t : t.id # id)

\* updateOne({ date }, { $pull: { tasks: { id: Number(id) } } })
PullTask(coll, date, id) ==
    LET i == FindOne(coll, date) IN
    IF i = 0 THEN coll
    ELSE [coll EXCEPT ![i].tasks = Pull(@, id)]

\* (variant: the flag is flipped instead of set to the value supplied)
SetCompleted_Flip(coll, date, id, v) ==
    LET i == FindOneWithTask(coll, date, id) IN
    IF i = 0 THEN coll
    ELSE [coll EXCEPT ![i].tasks[FindTask(coll[i].tasks, id)].completed = ~@]

\* updateOne({ date, "tasks.id": id }, { $set: { "tasks.$.completed": v } })
SetCompleted(coll, date, id, v) ==
    LET i == FindOneWithTask(coll, date, id) IN
    IF i = 0 THEN coll
    ELSE [coll EXCEPT ![i].tasks[FindTask(coll[i].tasks, id)].completed = v]

\* updateOne({ date, "tasks.id": id }, { $set: { "tasks.$.notified": true } })
SetNotified(coll, date, id) ==
    LET i == FindOneWithTask(coll, date, id) IN
    IF i = 0 THEN coll
    ELSE [coll EXCEPT ![i].tasks[FindTask(coll[i].tasks, id)].notified = TRUE]

\* insertOne({ date, tasks: [task] })
InsertDay(coll, date, tasks) == Append(coll, [date |-> date, tasks |-> tasks])

\* docs.forEach((doc) => { result[doc.date] = doc.tasks || [] }): the mapping
\* date -> tasks; a later document of the same date overwrites an earlier one.
RECURSIVE ToMapping(_)
ToMapping(docs) ==
    IF docs = << >> THEN << >>
    ELSE LET n == Len(docs)
             m == ToMapping(SubSeq(docs, 1, n - 1))
             d == docs[n].date
         IN [k \in (DOMAIN m) \cup {d} |-> IF k = d THEN docs[n].tasks ELSE m[k]]

\* Number of tasks with the given id over the whole collection.
RECURSIVE CountId(_, _)
CountId(coll, id) ==
    IF coll = << >> THEN 0
    ELSE Len(SelectSeq(Head(coll).tasks, LAMBDA t : t.id = id)) + CountId(Tail(coll), id)

\* ------------------------------------------------------------------ inputs
\* Bodies of POST /planner; "" stands for a field the body does not carry.
AddBodies ==
    { [date |-> d, subject |-> "Math", priority |-> "", notes |-> ""] : d \in Dates }
    \cup { [date |-> d, subject |-> "Physics", priority |-> "High", notes |-> "ch1"] : d \in Dates }
    \cup { [date |-> "2025-09-01", subject |-> "", priority |-> "", notes |-> ""],
           [date |-> "", subject |-> "Math", priority |-> "", notes |-> ""] }

SampleTask(id, subject) ==
    [id |-> id, subject |-> subject, priority |-> "Medium", notes |-> "",
     completed |-> FALSE, notified |-> FALSE]

\* Entries of the current store in document order: the body a client sends
\* when it imports what an export just returned.
RECURSIVE DistinctDates(_)
DistinctDates(docs) ==
    IF docs = << >> THEN << >>
    ELSE LET n == Len(docs)
             ds == DistinctDates(SubSeq(docs, 1, n - 1))
         IN IF \E i \in 1..Len(ds) : ds[i] = docs[n].date THEN ds
            ELSE Append(ds, docs[n].date)

ExportEntries(coll) ==
    LET ds == DistinctDates(coll)
    IN [i \in 1..Len(ds) |-> [date |-> ds[i], tasks |-> ToMapping(coll)[ds[i]]]]

\* Bodies of POST /planner/import, as the entries of the JSON object in key order.
ImportBodies(coll) ==
    { << >>,
      << [date |-> "2025-09-01", tasks |-> << SampleTask(1, "Math") >>],
         [date |-> "2025-09-02", tasks |-> << >>] >>,
      << [date |-> "2025-09-01", tasks |-> << SampleTask(1, "Math"), SampleTask(2, "Physics") >>],
         [date |-> "2025-09-02", tasks |-> << SampleTask(1, "Chemistry") >>] >>,
      ExportEntries(coll) }

\* Bodies of POST /api/classes.
ClassBodies ==
    { [name |-> "Algebra", instructor |-> "Dr. Rahman", day |-> "Monday",
       startTime |-> "09:00", endTime |-> "10:00", color |-> "#4F46E5"],
      [name |-> "Algebra", instructor |-> "", day |-> "Monday",
       startTime |-> "09:00", endTime |-> "10:00", color |-> "#4F46E5"] }

\* Ids of the tasks in the collection.
RECURSIVE KnownIds(_)
KnownIds(coll) ==
    IF coll = << >> THEN {}
    ELSE { Head(coll).tasks[i].id : i \in 1..Len(Head(coll).tasks) } \cup KnownIds(Tail(coll))

\* The :id of a request: the id of a stored task, or an id that no task has
\* (all such ids are handled alike).
RequestIds(coll) == KnownIds(coll) \cup {NoTask.id}

\* ------------------------------------------------------------------ requests
\* A request may start in slot r: the slot is free, the run has requests left,
\* and a serial client has no other request outstanding.
CanStart(r) ==
    /\ req[r].pc = "idle"
    /\ issued < MaxRequests
    /\ serial => (r = "r1" /\ \A q \in Req : req[q].pc = "idle")

Begin(r, rec) ==
    /\ req' = [req EXCEPT ![r] =
                 IF serial THEN [rec EXCEPT !.pre = planner, !.preClasses = classes]
                 ELSE rec]
    /\ issued' = issued + 1

Respond(rec, status) == [rec EXCEPT !.pc = "done", !.status = status]

\* The clock advances by a millisecond.
Tick ==
    /\ now < MaxClock
    /\ now' = now + 1
    /\ UNCHANGED <<planner, classes, req, issued, serial, live, last>>

\* ---- POST /planner
\* (variant: the priority is stored as supplied, without the default)
PriorityOrDefault_Keep(priority) == priority

\* priority: priority || "Medium"
PriorityOrDefault(priority) == IF priority = "" THEN "Medium" ELSE priority

NewTask(body, clock) ==
    [id |-> clock, subject |-> body.subject,
     priority |-> PriorityOrDefault(body.priority), notes |-> body.notes,
     completed |-> FALSE, notified |-> FALSE]

AddStart(r) ==
    /\ CanStart(r)
    /\ \E body \in AddBodies :
        IF body.date = "" \/ body.subject = ""
        THEN Begin(r, Respond([Idle EXCEPT !.op = "add", !.date = body.date], 400))
        ELSE Begin(r, [Idle EXCEPT !.op = "add", !.pc = "add_findOne",
                                   !.date = body.date, !.body = body,
                                   !.task = NewTask(body, now)])
    /\ UNCHANGED <<planner, classes, now, serial, live, last>>

AddFindOne(r) ==
    /\ req[r].pc = "add_findOne"
    /\ req' = [req EXCEPT ![r].existing = (FindOne(planner, req[r].date) # 0),
                          ![r].pc = "add_write"]
    /\ UNCHANGED <<planner, classes, now, issued, serial, live, last>>

AddWrite(r) ==
    /\ req[r].pc = "add_write"
    /\ planner' = IF req[r].existing
                  THEN PushTask(planner, req[r].date, req[r].task)
                  ELSE InsertDay(planner, req[r].date, << req[r].task >>)
    /\ live' = [live EXCEPT ![req[r].task.id] = @ + 1]
    /\ req' = [req EXCEPT ![r] = [Respond(req[r], 201) EXCEPT
                                     !.writes = @ + 1, !.resTask = req[r].task]]
    /\ UNCHANGED <<classes, now, issued, serial, last>>

\* ---- PUT /planner/:date/:id
IsMove(rec) == rec.newDate # "" /\ rec.newDate # rec.date

\* Bodies of PUT /planner/:date/:id for a request on :date: a toggle, a "move"
\* to the same date, a move to another date, a toggle with a move.
PutBodies(date) ==
    { [hasCompleted |-> TRUE, completed |-> TRUE, newDate |-> ""],
      [hasCompleted |-> TRUE, completed |-> FALSE, newDate |-> ""],
      [hasCompleted |-> FALSE, completed |-> FALSE, newDate |-> date] }
    \cup { [hasCompleted |-> c, completed |-> c, newDate |-> d] :
              c \in BOOLEAN, d \in Dates \ {date} }

\* The synchronous head of the handler runs up to its first await: the toggle's
\* updateOne when `completed` is supplied, else the move's findOne, else none.
PutStart(r) ==
    /\ CanStart(r)
    /\ \E date \in Dates, id \in RequestIds(planner) :
        \E body \in PutBodies(date) :
           LET rec == [Idle EXCEPT !.op = "put", !.date = date, !.id = id,
                                   !.hasCompleted = body.hasCompleted,
                                   !.completed = body.completed,
                                   !.newDate = body.newDate]
           IN  Begin(r, IF rec.hasCompleted THEN [rec EXCEPT !.pc = "put_toggle"]
                        ELSE IF IsMove(rec) THEN [rec EXCEPT !.pc = "put_findOne"]
                        ELSE Respond(rec, 200))
    /\ UNCHANGED <<planner, classes, now, serial, live, last>>

PutToggle(r) ==
    /\ req[r].pc = "put_toggle"
    /\ planner' = SetCompleted(planner, req[r].date, req[r].id, req[r].completed)
    /\ req' = [req EXCEPT ![r] =
                 IF IsMove(req[r])
                 THEN [req[r] EXCEPT !.pc = "put_findOne", !.writes = @ + 1]
                 ELSE [Respond(req[r], 200) EXCEPT !.writes = @ + 1]]
    /\ UNCHANGED <<classes, now, issued, serial, live, last>>

\* findOne({ date }) and the lookup of the task in the document it returned.
\* taskDoc is null when the date has no document: taskDoc.tasks throws a
\* TypeError, which the catch turns into 500.
PutFindOne(r) ==
    /\ req[r].pc = "put_findOne"
    /\ LET i == FindOne(planner, req[r].date)
           k == IF i = 0 THEN 0 ELSE FindTask(planner[i].tasks, req[r].id)
       IN req' = [req EXCEPT ![r] =
                    IF i = 0 THEN Respond(req[r], 500)
                    ELSE IF k = 0 THEN Respond(req[r], 404)
                    ELSE [req[r] EXCEPT !.pc = "put_pull", !.task = planner[i].tasks[k]]]
    /\ UNCHANGED <<planner, classes, now, issued, serial, live, last>>

PutPull(r) ==
    /\ req[r].pc = "put_pull"
    /\ planner' = PullTask(planner, req[r].date, req[r].id)
    /\ req' = [req EXCEPT ![r].pc = "put_findNew", ![r].writes = @ + 1]
    /\ UNCHANGED <<classes, now, issued, serial, live, last>>

PutFindNew(r) ==
    /\ req[r].pc = "put_findNew"
    /\ req' = [req EXCEPT ![r].existing = (FindOne(planner, req[r].newDate) # 0),
                          ![r].pc = "put_insert"]
    /\ UNCHANGED <<planner, classes, now, issued, serial, live, last>>

PutInsert(r) ==
    /\ req[r].pc = "put_insert"
    /\ planner' = IF req[r].existing
                  THEN PushTask(planner, req[r].newDate, req[r].task)
                  ELSE InsertDay(planner, req[r].newDate, << req[r].task >>)
    /\ req' = [req EXCEPT ![r] = [Respond(req[r], 200) EXCEPT !.writes = @ + 1]]
    /\ UNCHANGED <<classes, now, issued, serial, live, last>>

\* ---- DELETE /planner/:date/:id
DeleteStart(r) ==
    /\ CanStart(r)
    /\ \E date \in Dates, id \in RequestIds(planner) :
        Begin(r, [Idle EXCEPT !.op = "delete", !.pc = "del_pull",
                              !.date = date, !.id = id])
    /\ UNCHANGED <<planner, classes, now, serial, live, last>>

DeletePull(r) ==
    /\ req[r].pc = "del_pull"
    /\ planner' = PullTask(planner, req[r].date, req[r].id)
    /\ live' = [i \in Ids |->
                   live[i] - (CountId(planner, i) - CountId(planner', i))]
    /\ req' = [req EXCEPT ![r] = [Respond(req[r], 200) EXCEPT !.writes = @ + 1]]
    /\ UNCHANGED <<classes, now, issued, serial, last>>

\* ---- POST /planner/import
ImportStart(r) ==
    /\ CanStart(r)
    /\ \E imported \in ImportBodies(planner) :
        Begin(r, [Idle EXCEPT !.op = "import", !.pc = "imp_deleteMany",
                              !.imported = imported])
    /\ UNCHANGED <<planner, classes, now, serial, live, last>>

\* deleteMany({})
ImportDeleteMany(r) ==
    /\ req[r].pc = "imp_deleteMany"
    /\ planner' = << >>
    /\ live' = [i \in Ids |-> 0]
    /\ req' = [req EXCEPT ![r].pc = "imp_insertMany", ![r].writes = @ + 1]
    /\ UNCHANGED <<classes, now, issued, serial, last>>

\* Object.keys(imported).map((date) => ({ date, tasks: imported[date] }))
ImportDocs(imported) ==
    [i \in 1..Len(imported) |-> [date |-> imported[i].date, tasks |-> imported[i].tasks]]

\* (variant: the catch puts back the documents deleteMany removed)
ImportInsertMany_Rollback(r) ==
    /\ req[r].pc = "imp_insertMany"
    /\ \E fault \in BOOLEAN :
        LET docs == ImportDocs(req[r].imported) IN
        IF fault \/ docs = << >>
        THEN /\ planner' = req[r].pre
             /\ req' = [req EXCEPT ![r] = [Respond(req[r], 500) EXCEPT
                                             !.writes = @ + 1, !.fault = fault]]
             /\ UNCHANGED live
        ELSE /\ planner' = planner \o docs
             /\ live' = [i \in Ids |-> live[i] + CountId(docs, i)]
             /\ req' = [req EXCEPT ![r] = [Respond(req[r], 200) EXCEPT !.writes = @ + 1]]
    /\ UNCHANGED <<classes, now, issued, serial, last>>

\* insertMany(docs): the driver rejects an empty batch (MongoInvalidArgumentError
\* "Invalid BulkOperation, Batch cannot be empty"), and the store may fail the
\* call (fault); either way the catch answers 500 and nothing is inserted.
ImportInsertMany(r) ==
    /\ req[r].pc = "imp_insertMany"
    /\ \E fault \in BOOLEAN :
        LET docs == ImportDocs(req[r].imported) IN
        IF fault \/ docs = << >>
        THEN /\ req' = [req EXCEPT ![r] = [Respond(req[r], 500) EXCEPT
                                             !.writes = @ + 1, !.fault = fault]]
             /\ UNCHANGED <<planner, live>>
        ELSE /\ planner' = planner \o docs
             /\ live' = [i \in Ids |-> live[i] + CountId(docs, i)]
             /\ req' = [req EXCEPT ![r] = [Respond(req[r], 200) EXCEPT !.writes = @ + 1]]
    /\ UNCHANGED <<classes, now, issued, serial, last>>

\* ---- GET /planner/export (GET /planner builds the same mapping)
ExportStart(r) ==
    /\ CanStart(r)
    /\ Begin(r, [Idle EXCEPT !.op = "export", !.pc = "exp_find"])
    /\ UNCHANGED <<planner, classes, now, serial, live, last>>

ExportFind(r) ==
    /\ req[r].pc = "exp_find"
    /\ req' = [req EXCEPT ![r] = [Respond(req[r], 200) EXCEPT
                                     !.resMap = ExportEntries(planner)]]
    /\ UNCHANGED <<planner, classes, now, issued, serial, live, last>>

\* ---- POST /planner/notify/:id
NotifyStart(r) ==
    /\ CanStart(r)
    /\ \E date \in Dates, id \in RequestIds(planner) :
        Begin(r, [Idle EXCEPT !.op = "notify", !.pc = "ntf_findOne",
                              !.date = date, !.id = id])
    /\ UNCHANGED <<planner, classes, now, serial, live, last>>

\* (variant: the handler never looks at the flag)
AlreadyNotified_Never(task) == FALSE

\* if (task.notified) return res.status(400)
AlreadyNotified(task) == task.notified

\* findOne({ date }), then the three early returns.
NotifyFindOne(r) ==
    /\ req[r].pc = "ntf_findOne"
    /\ LET i == FindOne(planner, req[r].date)
           k == IF i = 0 THEN 0 ELSE FindTask(planner[i].tasks, req[r].id)
       IN req' = [req EXCEPT ![r] =
                    IF i = 0 THEN Respond(req[r], 404)
                    ELSE IF k = 0 THEN Respond(req[r], 404)
                    ELSE IF AlreadyNotified(planner[i].tasks[k]) THEN Respond(req[r], 400)
                    ELSE [req[r] EXCEPT !.pc = "ntf_sendMail", !.task = planner[i].tasks[k]]]
    /\ UNCHANGED <<planner, classes, now, issued, serial, live, last>>

\* (variant: the flag is written before the dispatch, so that a transport
\* failure leaves it set)
NotifySendMail_FlagFirst(r) ==
    /\ req[r].pc = "ntf_sendMail"
    /\ planner' = SetNotified(planner, req[r].date, req[r].id)
    /\ \E fault \in BOOLEAN :
        req' = [req EXCEPT ![r] =
                  IF fault THEN [Respond(req[r], 500) EXCEPT !.fault = TRUE]
                  ELSE [req[r] EXCEPT !.pc = "ntf_update", !.mails = @ + 1]]
    /\ UNCHANGED <<classes, now, issued, serial, live, last>>

\* (variant: the flag is read again from the store right before the dispatch,
\* and a request that finds it set answers 400 without sending)
NotifySendMail_Recheck(r) ==
    /\ req[r].pc = "ntf_sendMail"
    /\ \E fault \in BOOLEAN :
        LET i == FindOne(planner, req[r].date)
            k == IF i = 0 THEN 0 ELSE FindTask(planner[i].tasks, req[r].id)
        IN req' = [req EXCEPT ![r] =
                     IF k # 0 /\ AlreadyNotified(planner[i].tasks[k])
                     THEN Respond(req[r], 400)
                     ELSE IF fault THEN [Respond(req[r], 500) EXCEPT !.fault = TRUE]
                     ELSE [req[r] EXCEPT !.pc = "ntf_update", !.mails = @ + 1]]
    /\ UNCHANGED <<planner, classes, now, issued, serial, live, last>>

\* transporter.sendMail(mailOptions): the transport accepts the message, or
\* reports a failure (fault), which the catch turns into 500.
NotifySendMail(r) ==
    /\ req[r].pc = "ntf_sendMail"
    /\ \E fault \in BOOLEAN :
        req' = [req EXCEPT ![r] =
                  IF fault THEN [Respond(req[r], 500) EXCEPT !.fault = TRUE]
                  ELSE [req[r] EXCEPT !.pc = "ntf_update", !.mails = @ + 1]]
    /\ UNCHANGED <<planner, classes, now, issued, serial, live, last>>

NotifyUpdate(r) ==
    /\ req[r].pc = "ntf_update"
    /\ planner' = SetNotified(planner, req[r].date, req[r].id)
    /\ req' = [req EXCEPT ![r] = [Respond(req[r], 200) EXCEPT !.writes = @ + 1]]
    /\ UNCHANGED <<classes, now, issued, serial, live, last>>

\* ---- POST /api/classes
PostClassStart(r) ==
    /\ CanStart(r)
    /\ Len(classes) < MaxClasses
    /\ \E newClass \in ClassBodies :
        Begin(r, [Idle EXCEPT !.op = "postClass", !.pc = "cls_insertOne",
                              !.newClass = newClass])
    /\ UNCHANGED <<planner, classes, now, serial, live, last>>

PostClassInsertOne(r) ==
    /\ req[r].pc = "cls_insertOne"
    /\ classes' = Append(classes, req[r].newClass)
    /\ req' = [req EXCEPT ![r] = [Respond(req[r], 200) EXCEPT !.writes = @ + 1]]
    /\ UNCHANGED <<planner, now, issued, serial, live, last>>

\* ---- the response has gone out; the slot is free again
Finish(r) ==
    /\ req[r].pc = "done"
    /\ last' = IF serial
               THEN [op |-> req[r].op, date |-> req[r].date, id |-> req[r].id,
                     status |-> req[r].status, hasCompleted |-> req[r].hasCompleted,
                     completed |-> req[r].completed, newDate |-> req[r].newDate]
               ELSE last
    /\ req' = [req EXCEPT ![r] = Idle]
    /\ UNCHANGED <<planner, classes, now, issued, serial, live>>

\* ------------------------------------------------------------------ specification
InitStore ==
    /\ planner = << >>
    /\ classes = << >>
    /\ now = 1
    /\ req = [r \in Req |-> Idle]
    /\ issued = 0
    /\ live = [i \in Ids |-> 0]
    /\ last = NoLast

Init == InitStore /\ serial = FALSE

SeqInit == InitStore /\ serial = TRUE

Next ==
    \/ Tick
    \/ \E r \in Req : AddStart(r)
    \/ \E r \in Req : AddFindOne(r)
    \/ \E r \in Req : AddWrite(r)
    \/ \E r \in Req : PutStart(r)
    \/ \E r \in Req : PutToggle(r)
    \/ \E r \in Req : PutFindOne(r)
    \/ \E r \in Req : PutPull(r)
    \/ \E r \in Req : PutFindNew(r)
    \/ \E r \in Req : PutInsert(r)
    \/ \E r \in Req : DeleteStart(r)
    \/ \E r \in Req : DeletePull(r)
    \/ \E r \in Req : ImportStart(r)
    \/ \E r \in Req : ImportDeleteMany(r)
    \/ \E r \in Req : ImportInsertMany(r)
    \/ \E r \in Req : ExportStart(r)
    \/ \E r \in Req : ExportFind(r)
    \/ \E r \in Req : NotifyStart(r)
    \/ \E r \in Req : NotifyFindOne(r)
    \/ \E r \in Req : NotifySendMail(r)
    \/ \E r \in Req : NotifyUpdate(r)
    \/ \E r \in Req : PostClassStart(r)
    \/ \E r \in Req : PostClassInsertOne(r)
    \/ \E r \in Req : Finish(r)

\* Requests interleave freely.
Spec == Init /\ [][Next]_vars

\* The client issues each request after the previous one has responded.
SeqSpec == SeqInit /\ [][Next]_vars

\* The server starts over a collection that an earlier POST /planner (counted
\* among the requests of the run) left with one task; requests interleave freely.
RaceInit ==
    /\ planner = << [date |-> "2025-09-01",
                     tasks |-> << NewTask([date |-> "2025-09-01", subject |-> "Math",
                                           priority |-> "", notes |-> ""], 1) >>] >>
    /\ classes = << >>
    /\ now = 1
    /\ req = [r \in Req |-> Idle]
    /\ issued = 1
    /\ live = [i \in Ids |-> IF i = 1 THEN 1 ELSE 0]
    /\ last = NoLast
    /\ serial = FALSE

RaceSpec == RaceInit /\ [][Next]_vars

\* ------------------------------------------------------------------ properties
Done(r, op) == req[r].pc = "done" /\ req[r].op = op

\* The date has a document holding a task with that id (as findOne({ date })
\* followed by tasks.find sees it).
HasTask(coll, date, id) ==
    /\ FindOne(coll, date) # 0
    /\ FindTask(coll[FindOne(coll, date)].tasks, id) # 0

TaskAt(coll, date, id) ==
    coll[FindOne(coll, date)].tasks[FindTask(coll[FindOne(coll, date)].tasks, id)]

\* Tasks of the date's document, the empty sequence when it has none.
TasksOf(coll, date) ==
    IF FindOne(coll, date) = 0 THEN << >> ELSE coll[FindOne(coll, date)].tasks

RemoveAt(seq, k) == SubSeq(seq, 1, k - 1) \o SubSeq(seq, k + 1, Len(seq))

\* C1: under any interleaving of requests, in every state (the states between
\* the store calls of one request included), every task that was added and not
\* deleted is stored exactly once: the number of stored tasks of each id equals
\* the number of tasks of that id added and not deleted.
C1_TaskInExactlyOneDay ==
    \A i \in Ids : CountId(planner, i) = live[i]

\* C2: a move of a task that exists on date A to date B, with no concurrent
\* request, answers 200, removes exactly that task from A (the others stay in
\* place and in order) and appends it as the last task of B (B's document being
\* created when it had none), with id, subject, priority and notes unchanged.
C2_MoveRemovesAndAppends ==
    \A r \in Req :
        (Done(r, "put") /\ IsMove(req[r]) /\ HasTask(req[r].pre, req[r].date, req[r].id)) =>
            LET A  == req[r].date
                B  == req[r].newDate
                pA == TasksOf(req[r].pre, A)
                pB == TasksOf(req[r].pre, B)
                k  == FindTask(pA, req[r].id)
                qB == TasksOf(planner, B)
            IN  /\ req[r].status = 200
                /\ FindOne(planner, B) # 0
                /\ TasksOf(planner, A) = RemoveAt(pA, k)
                /\ Len(qB) = Len(pB) + 1
                /\ SubSeq(qB, 1, Len(pB)) = pB
                /\ qB[Len(qB)].id = pA[k].id
                /\ qB[Len(qB)].subject = pA[k].subject
                /\ qB[Len(qB)].priority = pA[k].priority
                /\ qB[Len(qB)].notes = pA[k].notes

\* C3: a move for a (date, id) that names no task, whether the date has a
\* document without that id or no document at all, answers 404 and leaves the
\* planner collection as it was.
C3_MoveOfMissingTaskIs404 ==
    \A r \in Req :
        (Done(r, "put") /\ IsMove(req[r]) /\ ~HasTask(req[r].pre, req[r].date, req[r].id)) =>
            /\ req[r].status = 404
            /\ planner = req[r].pre

\* The imported mapping has one entry per date (a JSON object has no two equal keys).
DistinctKeys(entries) ==
    \A i, j \in 1..Len(entries) : entries[i].date = entries[j].date => i = j

C6_PostClassValidatesInstructor ==
    \A r \in Req :
        (Done(r, "postClass") /\ req[r].newClass.instructor = "") =>
            /\ req[r].status = 400
            /\ classes = req[r].preClasses
            /\ req[r].writes = 0

\* C10: no document of the planner collection holds two tasks with the same id.
C10_IdsUniqueWithinDay ==
    \A d \in 1..Len(planner) :
        \A i, j \in 1..Len(planner[d].tasks) :
            planner[d].tasks[i].id = planner[d].tasks[j].id => i = j

\* The previously completed request was the same call as the one in slot r.
SameAsLast(r) ==
    /\ last.op = req[r].op
    /\ last.date = req[r].date
    /\ last.id = req[r].id
    /\ last.hasCompleted = req[r].hasCompleted
    /\ last.completed = req[r].completed
    /\ last.newDate = req[r].newDate

\* C5: of two notification requests for a task whose notified flag is false,
\* issued one after the other, the first (the transport accepting the mail)
\* answers 200, dispatches exactly one mail and sets notified = true, changing
\* nothing else; the second answers 400, dispatches no mail and writes nothing.
C5_SecondNotifyIsRejected ==
    \A r \in Req :
        Done(r, "notify") =>
            /\ (/\ HasTask(req[r].pre, req[r].date, req[r].id)
                /\ ~TaskAt(req[r].pre, req[r].date, req[r].id).notified
                /\ ~req[r].fault)
               => /\ req[r].status = 200
                  /\ req[r].mails = 1
                  /\ req[r].writes = 1
                  /\ TaskAt(planner, req[r].date, req[r].id).notified
                  /\ LET i == FindOne(req[r].pre, req[r].date)
                         k == FindTask(req[r].pre[i].tasks, req[r].id)
                     IN  planner = [req[r].pre EXCEPT ![i].tasks[k].notified = TRUE]
            /\ (SameAsLast(r) /\ last.status = 200)
               => /\ req[r].status = 400
                  /\ req[r].mails = 0
                  /\ req[r].writes = 0
                  /\ planner = req[r].pre

\* A second notification has been rejected right after a first one succeeded.
C5_Witness ==
    \E r \in Req :
        /\ Done(r, "notify") /\ SameAsLast(r) /\ last.status = 200
        /\ req[r].status = 400
        /\ TaskAt(planner, req[r].date, req[r].id).notified

\* C7: an add with date and subject, for a date that has no document and with
\* no concurrent request, answers 201 with the created task, performs exactly
\* one write, and that write creates one document for the date whose tasks are
\* the single new task: completed = false, notified = false, the subject and
\* notes supplied, the priority supplied or Medium when none is.
C7_AddCreatesSingletonDay ==
    \A r \in Req :
        (Done(r, "add") /\ req[r].body.date # "" /\ req[r].body.subject # ""
         /\ FindOne(req[r].pre, req[r].body.date) = 0) =>
            LET t == [id |-> req[r].resTask.id,
                      subject |-> req[r].body.subject,
                      priority |-> IF req[r].body.priority = "" THEN "Medium"
                                   ELSE req[r].body.priority,
                      notes |-> req[r].body.notes,
                      completed |-> FALSE, notified |-> FALSE]
            IN  /\ req[r].status = 201
                /\ req[r].resTask = t
                /\ t.id \in Ids
                /\ req[r].writes = 1
                /\ planner = req[r].pre \o << [date |-> req[r].body.date, tasks |-> << t >>] >>

\* An add without priority has created the document of a date that had none,
\* beside the document of another date.
C7_Witness ==
    \E r \in Req :
        /\ Done(r, "add") /\ req[r].status = 201
        /\ req[r].body.priority = ""
        /\ req[r].pre # << >>
        /\ FindOne(req[r].pre, req[r].body.date) = 0
        /\ FindOne(planner, req[r].body.date) # 0

\* C8: with no concurrent request, a delete always answers 200; a delete that
\* repeats the previous request leaves the collection as that one left it; and
\* a delete of a (date, id) that names no task leaves the collection unchanged.
C8_DeleteIsIdempotent ==
    \A r \in Req :
        Done(r, "delete") =>
            /\ req[r].status = 200
            /\ (SameAsLast(r) /\ last.status = 200) => planner = req[r].pre
            /\ ~HasTask(req[r].pre, req[r].date, req[r].id) => planner = req[r].pre
            /\ ~HasTask(planner, req[r].date, req[r].id)

\* A delete has been repeated on a date that still holds another task.
C8_Witness ==
    \E r \in Req :
        /\ Done(r, "delete") /\ SameAsLast(r) /\ last.status = 200
        /\ TasksOf(planner, req[r].date) # << >>

\* The request in slot r only toggles: `completed` supplied and no move.
IsToggle(rec) == rec.op = "put" /\ rec.hasCompleted /\ ~IsMove(rec)

\* C9: with no concurrent request, a toggle with completed = v of an existing
\* task answers 200, after it the task reads back completed = v, no other
\* field of the task and no other task has changed; and a toggle that repeats
\* the previous request leaves the collection as that one left it.
C9_ToggleSetsAndIsIdempotent ==
    \A r \in Req :
        (req[r].pc = "done" /\ IsToggle(req[r])) =>
            /\ req[r].status = 200
            /\ HasTask(req[r].pre, req[r].date, req[r].id) =>
                 LET i == FindOne(req[r].pre, req[r].date)
                     k == FindTask(req[r].pre[i].tasks, req[r].id)
                 IN  /\ HasTask(planner, req[r].date, req[r].id)
                     /\ TaskAt(planner, req[r].date, req[r].id).completed = req[r].completed
                     /\ planner = [req[r].pre EXCEPT
                                      ![i].tasks[k].completed = req[r].completed]
            /\ ~HasTask(req[r].pre, req[r].date, req[r].id) => planner = req[r].pre
            /\ (SameAsLast(r) /\ last.status = 200) => planner = req[r].pre

\* A toggle with completed = true has been repeated on a task that exists.
C9_Witness ==
    \E r \in Req :
        /\ req[r].pc = "done" /\ IsToggle(req[r]) /\ req[r].completed
        /\ SameAsLast(r) /\ last.status = 200
        /\ HasTask(planner, req[r].date, req[r].id)
        /\ TaskAt(planner, req[r].date, req[r].id).completed

\* C11: under any interleaving of add and move requests the planner collection
\* holds at most one document per date, so that the mapping GET /planner
\* builds carries every stored task of every date.
C11_OneDocumentPerDate ==
    /\ \A i, j \in 1..Len(planner) : planner[i].date = planner[j].date => i = j
    /\ \A i \in 1..Len(planner) :
          \A k \in 1..Len(planner[i].tasks) :
              \E m \in 1..Len(ToMapping(planner)[planner[i].date]) :
                  ToMapping(planner)[planner[i].date][m] = planner[i].tasks[k]

\* The request in slot r is a notification that has passed the three early
\* returns of its handler.
PastCheck(r) ==
    /\ req[r].op = "notify"
    /\ \/ req[r].pc \in {"ntf_sendMail", "ntf_update"}
       \/ req[r].pc = "done" /\ req[r].status \in {200, 500}

\* C12: the notification handler reads the flag once and never again: a request
\* that found notified = false dispatches its mail and then writes the flag and
\* answers 200 whatever other requests did to the flag meanwhile (only a
\* transport failure stops it), so two concurrent requests for one task can
\* both pass the check, send two mails and both report success.
C12_NotifyNeverRechecksFlag ==
    /\ [](\A r \in Req :
            PastCheck(r) =>
                /\ req[r].task.id = req[r].id
                /\ ~req[r].task.notified
                /\ req[r].mails = IF req[r].pc = "ntf_update" \/ req[r].status = 200
                                  THEN 1 ELSE 0)
    /\ [][\A r \in Req :
            /\ (req[r].pc = "ntf_sendMail" /\ req'[r] # req[r]) =>
                  \/ req'[r].pc = "ntf_update" /\ req'[r].mails = 1
                  \/ req'[r].pc = "done" /\ req'[r].status = 500 /\ req'[r].fault
            /\ (req[r].pc = "ntf_update" /\ req'[r] # req[r]) =>
                  /\ req'[r].pc = "done" /\ req'[r].status = 200 /\ req'[r].mails = 1
                  /\ planner' = SetNotified(planner, req[r].date, req[r].id)]_vars

\* Two requests for the only stored task have both dispatched a mail and both
\* answered 200.
C12_Witness ==
    /\ Len(planner) = 1 /\ Len(planner[1].tasks) = 1
    /\ live[planner[1].tasks[1].id] = 1
    /\ \A r \in Req :
          /\ Done(r, "notify") /\ req[r].status = 200 /\ req[r].mails = 1
          /\ req[r].date = planner[1].date
          /\ req[r].id = planner[1].tasks[1].id
          /\ req[r].task = [planner[1].tasks[1] EXCEPT !.notified = FALSE]

\* C13: when the insert step of an import fails after its delete step, with no
\* concurrent request, the request answers 500 and the documents the delete
\* removed are not restored: the collection is left empty, which differs from
\* the state before the import whenever that state held a document.
C13_FailedImportLeavesStoreEmpty ==
    \A r \in Req :
        Done(r, "import") =>
            /\ req[r].fault => req[r].status = 500
            /\ req[r].status = 500 =>
                  /\ planner = << >>
                  /\ req[r].writes = 2
                  /\ req[r].pre # << >> => planner # req[r].pre

\* An import of a non-empty mapping into a non-empty collection has failed at
\* its insert step.
C13_Witness ==
    \E r \in Req :
        /\ Done(r, "import") /\ req[r].fault /\ req[r].status = 500
        /\ req[r].imported # << >>
        /\ req[r].pre # << >>
        /\ planner = << >>

\* C14: with no concurrent request, a notification whose mail dispatch fails
\* answers 500 and writes nothing: the task's notified flag stays false and the
\* collection is as before; the flag is written only by a request whose mail
\* the transport accepted; and the same notification issued again after the
\* failure is not answered 400 (it answers 200 when the transport accepts).
C14_FailedMailLeavesFlagUnset ==
    \A r \in Req :
        Done(r, "notify") =>
            /\ req[r].fault =>
                  /\ req[r].status = 500
                  /\ req[r].mails = 0
                  /\ req[r].writes = 0
                  /\ planner = req[r].pre
                  /\ HasTask(planner, req[r].date, req[r].id)
                  /\ ~TaskAt(planner, req[r].date, req[r].id).notified
            /\ planner # req[r].pre => (req[r].status = 200 /\ req[r].mails = 1)
            /\ (SameAsLast(r) /\ last.status = 500) =>
                  /\ req[r].status # 400
                  /\ ~req[r].fault => (req[r].status = 200 /\ req[r].mails = 1)

\* A notification has succeeded right after the same notification failed at
\* the mail dispatch.
C14_Witness ==
    \E r \in Req :
        /\ Done(r, "notify") /\ SameAsLast(r) /\ last.status = 500
        /\ req[r].status = 200
        /\ TaskAt(planner, req[r].date, req[r].id).notified

====
